---- MODULE Spec2Model ----
(***************************************************************************)
(* A model of c7n/manager.py: the filter-tree linearization iter_filters,  *)
(* and ResourceManager.filter_resources, call_api and                      *)
(* get_resource_manager.                                                   *)
(***************************************************************************)
EXTENDS Integers, Sequences, FiniteSets, TLC

VARIABLES
    \* iter_filters: the filter tree, the flag, the deque and the yields
    ftype, fchildren, filters, block_end, queue, yielded, ipc,
    \* filter_resources: self.filters, the arguments, the loop
    chain, event, input, original, resources, idx, invoked, fpc,
    \* call_api: the resource type's codes, the call and its outcome
    not_found_exceptions, apiCall, apiResult,
    \* get_resource_manager: self, the provider registries, the last call
    provider_name, source_type, registered, last

iterVars == <<ftype, fchildren, filters, block_end, queue, yielded, ipc>>
filterVars == <<chain, event, input, original, resources, idx, invoked, fpc>>
apiVars == <<not_found_exceptions, apiCall, apiResult>>
resolveVars == <<provider_name, source_type, registered, last>>
vars == <<iterVars, filterVars, apiVars, resolveVars>>

----------------------------------------------------------------------------
(* Bounds *)

MaxNodes == 4
MaxRes == 3
MaxFilters == 3
MaxSpecLen == 3

----------------------------------------------------------------------------
(* Sequence helpers *)

RECURSIVE Reverse(_)
Reverse(s) == IF s = <<>> THEN <<>> ELSE Append(Reverse(Tail(s)), Head(s))

Range(s) == {s[i] : i \in 1..Len(s)}

RECURSIVE SeqsUpTo(_, _)
SeqsUpTo(S, n) ==
    IF n = 0 THEN {<<>>}
    ELSE LET shorter == SeqsUpTo(S, n - 1)
         IN  shorter \cup {Append(s, x) : s \in {t \in shorter : Len(t) = n - 1}, x \in S}

----------------------------------------------------------------------------
(* iter_filters *)

\* the block-end marker pushed and yielded by iter_filters (Python None);
\* filter nodes are numbered from 1
None == 0

Combinators == {"or", "and", "not"}
Kinds == Combinators \cup {"value"}

\* f is not None and f.type in ('or', 'and', 'not')
IsCombinator(f) == f # None /\ ftype[f] \in Combinators

\* parent vectors of the ordered forests on nodes 1..n: node i hangs under an
\* earlier node or under 0, the top-level list
RECURSIVE ParentVectors(_)
ParentVectors(n) ==
    IF n = 0 THEN {<<>>}
    ELSE {Append(p, k) : p \in ParentVectors(n - 1), k \in 0..(n - 1)}

RECURSIVE Ascending(_)
Ascending(S) ==
    IF S = {} THEN <<>>
    ELSE LET m == CHOOSE x \in S : \A y \in S : x <= y
         IN  <<m>> \o Ascending(S \ {m})

ChildrenOf(p, n) == Ascending({m \in 1..Len(p) : p[m] = n})

\* queue.appendleft(gf) for gf in f.filters, onto q
PushChildren_declared(gfs, q) == gfs \o q

RECURSIVE PushChildren(_, _)
PushChildren(gfs, q) ==
    IF gfs = <<>> THEN q
    ELSE PushChildren(Tail(gfs), <<Head(gfs)>> \o q)

\* the deque after the pushes for a combinator f taken off the front of
\* rest: the marker first when block_end, then each child in declared order
OpenBlock_marker_last(f, rest) ==
    IF block_end THEN <<None>> \o PushChildren(fchildren[f], rest)
    ELSE PushChildren(fchildren[f], rest)

OpenBlock_extend(f, rest) ==
    PushChildren(fchildren[f],
                 IF block_end THEN <<None>> \o rest \o fchildren[f]
                 ELSE rest \o fchildren[f])

OpenBlock(f, rest) ==
    PushChildren(fchildren[f], IF block_end THEN <<None>> \o rest ELSE rest)

\* one resumption of the generator: popleft, the pushes, yield f
IterStep ==
    /\ ipc = "running"
    /\ queue # <<>>
    /\ LET f == Head(queue)
           rest == Tail(queue)
       IN  /\ queue' = IF IsCombinator(f) THEN OpenBlock(f, rest) ELSE rest
           /\ yielded' = Append(yielded, f)
    /\ UNCHANGED <<ftype, fchildren, filters, block_end, ipc>>
    /\ UNCHANGED <<filterVars, apiVars, resolveVars>>

\* the while condition fails: the generator is exhausted
IterStop ==
    /\ ipc = "running"
    /\ queue = <<>>
    /\ ipc' = "done"
    /\ UNCHANGED <<ftype, fchildren, filters, block_end, queue, yielded>>
    /\ UNCHANGED <<filterVars, apiVars, resolveVars>>

IterNext == IterStep \/ IterStop

----------------------------------------------------------------------------
(* ResourceManager.filter_resources *)

ResourceIds == 1..MaxRes

\* resource lists: sequences of distinct resources
ResourceLists ==
    {rs \in SeqsUpTo(ResourceIds, MaxRes) :
        \A i, j \in 1..Len(rs) : i # j => rs[i] # rs[j]}

\* event: absent, an empty mapping, or one with the debug flag set
Events == {"None", "empty", "debug"}

\* the elements of rs at the positions K, in the order of rs
Pick(rs, K) == [j \in 1..Cardinality(K) |-> rs[Ascending(K)[j]]]

\* what f.process(rs, event) may return: the surviving resources
Process(rs) == {Pick(rs, K) : K \in SUBSET (1..Len(rs))}

\* for f in self.filters: if not resources: break
LoopContinues_no_break == idx <= Len(chain)

LoopContinues == idx <= Len(chain) /\ resources # <<>>

\* resources = f.process(resources, event), f returning normally
FilterApply_accumulate ==
    /\ fpc = "loop"
    /\ LoopContinues
    /\ \E out \in Process(resources) :
         /\ resources' = resources \o out
         /\ invoked' = Append(invoked, [filter |-> idx, given |-> resources,
                                        event |-> event, result |-> out])
    /\ idx' = idx + 1
    /\ UNCHANGED <<chain, event, input, original, fpc>>
    /\ UNCHANGED <<iterVars, apiVars, resolveVars>>

FilterApply ==
    /\ fpc = "loop"
    /\ LoopContinues
    /\ \E out \in Process(resources) :
         /\ resources' = out
         /\ invoked' = Append(invoked, [filter |-> idx, given |-> resources,
                                        event |-> event, result |-> out])
    /\ idx' = idx + 1
    /\ UNCHANGED <<chain, event, input, original, fpc>>
    /\ UNCHANGED <<iterVars, apiVars, resolveVars>>

\* f.process raises: nothing catches it, filter_resources ends with it
FilterRaise ==
    /\ fpc = "loop"
    /\ LoopContinues
    /\ fpc' = "raised"
    /\ invoked' = Append(invoked, [filter |-> idx, given |-> resources,
                                   event |-> event, result |-> <<>>])
    /\ UNCHANGED <<chain, event, input, original, resources, idx>>
    /\ UNCHANGED <<iterVars, apiVars, resolveVars>>

\* the loop is over: return resources
FilterReturn_unique ==
    /\ fpc = "loop"
    /\ ~LoopContinues
    /\ fpc' = "returned"
    /\ resources' = Ascending(Range(resources))
    /\ UNCHANGED <<chain, event, input, original, idx, invoked>>
    /\ UNCHANGED <<iterVars, apiVars, resolveVars>>

FilterReturn ==
    /\ fpc = "loop"
    /\ ~LoopContinues
    /\ fpc' = "returned"
    /\ UNCHANGED <<chain, event, input, original, resources, idx, invoked>>
    /\ UNCHANGED <<iterVars, apiVars, resolveVars>>

FilterNext == FilterApply \/ FilterRaise \/ FilterReturn

----------------------------------------------------------------------------
(* ResourceManager.call_api *)

\* provider error codes
Codes == {"ResourceNotFoundException", "AccessDenied"}

\* what func(*args, **kwargs) does: return a response or nothing, raise a
\* ClientError with a code, or raise something else
Funcs ==
    {[kind |-> "returns", class |-> "-", code |-> "-", value |-> v] :
        v \in {"response", "None"}}
    \cup {[kind |-> "raises", class |-> "ClientError", code |-> c, value |-> "-"] :
        c \in Codes}
    \cup {[kind |-> "raises", class |-> "OtherError", code |-> "-", value |-> "-"]}

\* the not_found_codes argument: None, or an iterable of codes
NotFoundArgs == {[given |-> g, codes |-> cs] :
                    g \in BOOLEAN, cs \in SUBSET Codes} \ 
                {[given |-> FALSE, codes |-> cs] : cs \in (SUBSET Codes) \ {{}}}

NoCall == [func |-> [kind |-> "-", class |-> "-", code |-> "-", value |-> "-"],
           ignore_not_found |-> TRUE,
           not_found_codes |-> [given |-> FALSE, codes |-> {}]]

NoResult == [kind |-> "none", value |-> "-", class |-> "-", code |-> "-"]

\* if not ignore_not_found or e.response['Error']['Code'] not in not_found_codes: raise
Reraises_and(e, ignore_not_found, codes) ==
    ~ignore_not_found /\ e.code \notin codes

Reraises(e, ignore_not_found, codes) ==
    ~ignore_not_found \/ e.code \notin codes

call_api(func, ignore_not_found, not_found_codes) ==
    LET codes == IF not_found_codes.given THEN not_found_codes.codes
                 ELSE not_found_exceptions
        raised == [kind |-> "raise", value |-> "-",
                   class |-> func.class, code |-> func.code]
    IN  IF func.kind = "returns"
        THEN [kind |-> "return", value |-> func.value, class |-> "-", code |-> "-"]
        ELSE IF func.class = "ClientError"
             THEN IF Reraises(func, ignore_not_found, codes)
                  THEN raised
                  ELSE [kind |-> "return", value |-> "None", class |-> "-", code |-> "-"]
             ELSE raised

CallApi ==
    /\ \E func \in Funcs, ignore_not_found \in BOOLEAN, not_found_codes \in NotFoundArgs :
         /\ apiCall' = [func |-> func, ignore_not_found |-> ignore_not_found,
                        not_found_codes |-> not_found_codes]
         /\ apiResult' = call_api(func, ignore_not_found, not_found_codes)
    /\ UNCHANGED not_found_exceptions
    /\ UNCHANGED <<iterVars, filterVars, resolveVars>>

ApiNext == CallApi

----------------------------------------------------------------------------
(* ResourceManager.get_resource_manager *)

\* type names are strings, modelled as sequences of characters
Alphabet == {"p", "q", "e", "."}
Dot == <<".">>

TypeNames == SeqsUpTo(Alphabet, MaxSpecLen)

\* the providers in clouds
Clouds == {<<"p">>, <<"q">>}

\* the resource classes the plugin modules define, as <<provider, resource>>
Plugins == {<<(<<"p">>), (<<"e">>)>>, <<(<<"p">>), (<<"q">>)>>, <<(<<"q">>), (<<"e">>)>>}

\* klass.get_model().config_type: a configuration type name, None, or no
\* such attribute
ConfigType(klass) ==
    IF klass = <<(<<"p">>), (<<"e">>)>> THEN "AWS::P::E"
    ELSE IF klass = <<(<<"p">>), (<<"q">>)>> THEN "None"
    ELSE "absent"

\* getattr(klass.get_model(), 'config_type', None), as a condition
HasConfigType(klass) == ConfigType(klass) \notin {"absent", "None"}

\* the data argument: None, or a mapping given as a set of <<key, value>>
Definitions ==
    {[given |-> FALSE, map |-> {}],
     [given |-> TRUE, map |-> {}],
     [given |-> TRUE, map |-> {<<"source", "describe">>}]}

\* the truth value of data
Truthy(data) == data.given /\ data.map # {}

\* self.ctx
Ctx == [policy |-> [provider_name |-> provider_name]]

NoLast == [called |-> FALSE, resource_type |-> <<>>,
           data |-> [given |-> FALSE, map |-> {}],
           kind |-> "none", klass |-> <<>>, ctx |-> [policy |-> [provider_name |-> <<>>]],
           hdata |-> {}, exc |-> "-", arg |-> <<>>, loaded |-> {}]

HasDot(name) == \E i \in 1..Len(name) : name[i] = "."

FirstDot(name) ==
    CHOOSE i \in 1..Len(name) : name[i] = "." /\ \A j \in 1..(i - 1) : name[j] # "."

\* <<provider_name, resource_type>> after lines 94-97
SplitType_first_cloud(resource_type) ==
    IF HasDot(resource_type)
    THEN <<SubSeq(resource_type, 1, FirstDot(resource_type) - 1),
           SubSeq(resource_type, FirstDot(resource_type) + 1, Len(resource_type))>>
    ELSE <<(<<"p">>), resource_type>>

SplitType(resource_type) ==
    IF HasDot(resource_type)
    THEN <<SubSeq(resource_type, 1, FirstDot(resource_type) - 1),
           SubSeq(resource_type, FirstDot(resource_type) + 1, Len(resource_type))>>
    ELSE <<provider_name, resource_type>>

\* '%s.%s' % (provider_name, resource_type)
Qualified(pname, rname) == pname \o Dot \o rname

\* the registries after load_resources(names): the plugin classes of the
\* named types have registered themselves
load_resources(names) ==
    registered \cup {pl \in Plugins : Qualified(pl[1], pl[2]) \in names}

\* raise ValueError(resource_type), resource_type being the name looked up
NotFoundError_requested(requested, resource_type) ==
    [exc |-> "ValueError", arg |-> requested]

NotFoundError(requested, resource_type) ==
    [exc |-> "ValueError", arg |-> resource_type]

\* not data and self.source_type == 'config' and getattr(model, 'config_type', None)
CarryConfig_is_none(data, klass) ==
    ~data.given /\ source_type = "config" /\ HasConfigType(klass)

CarryConfig(data, klass) ==
    ~Truthy(data) /\ source_type = "config" /\ HasConfigType(klass)

\* the outcome of get_resource_manager(resource_type, data) and the
\* registries it leaves
get_resource_manager(resource_type, data) ==
    LET split == SplitType(resource_type)
        names == {Qualified(split[1], split[2])}
        provider_resources == load_resources(names)
        klass == split
        call == [called |-> TRUE, resource_type |-> resource_type, data |-> data,
                 loaded |-> names]
        raise(e) == call @@ [kind |-> "raise", klass |-> <<>>, ctx |-> NoLast.ctx,
                             hdata |-> {}, exc |-> e.exc, arg |-> e.arg]
        build(d) == call @@ [kind |-> "handler", klass |-> klass, ctx |-> Ctx,
                             hdata |-> d, exc |-> "-", arg |-> <<>>]
    IN  [registered |-> provider_resources,
         outcome |->
            IF klass \notin provider_resources
            THEN raise(NotFoundError(resource_type, split[2]))
            ELSE IF CarryConfig(data, klass)
                 THEN build({<<"source", source_type>>})
                 ELSE build(IF Truthy(data) THEN data.map ELSE {})]

\* a call of get_resource_manager naming a provider that clouds has (for any
\* other, clouds[provider_name] fails inside the registry, before line 102)
Resolve ==
    /\ \E resource_type \in TypeNames, data \in Definitions :
         /\ SplitType(resource_type)[1] \in Clouds
         /\ LET result == get_resource_manager(resource_type, data)
            IN  /\ last' = result.outcome
                /\ registered' = result.registered
    /\ UNCHANGED <<provider_name, source_type>>
    /\ UNCHANGED <<iterVars, filterVars, apiVars>>

ResolveNext == Resolve

----------------------------------------------------------------------------
(* Specifications *)

\* a call of iter_filters on a filter forest; the other operations are idle
InitIter ==
    /\ \E n \in 0..MaxNodes :
         \E p \in ParentVectors(n) :
           \E t \in [1..n -> Kinds] :
             /\ \A m \in 1..n : p[m] # 0 => t[p[m]] \in Combinators
             /\ ftype = t
             /\ fchildren = [m \in 1..n |-> ChildrenOf(p, m)]
             /\ filters = ChildrenOf(p, 0)
    /\ block_end \in BOOLEAN
    /\ queue = filters
    /\ yielded = <<>>
    /\ ipc = "running"
    /\ chain = <<>> /\ event = "None" /\ input = <<>> /\ original = 0
    /\ resources = <<>> /\ idx = 0 /\ invoked = <<>> /\ fpc = "idle"
    /\ not_found_exceptions = {} /\ apiCall = NoCall /\ apiResult = NoResult
    /\ provider_name = <<>> /\ source_type = "describe"
    /\ registered = {} /\ last = NoLast

\* a call of filter_resources; the other operations are idle
InitFilter ==
    /\ chain \in SeqsUpTo({"value", "and"}, MaxFilters)
    /\ event \in Events
    /\ input \in ResourceLists
    /\ original = Len(input)
    /\ resources = input
    /\ idx = 1
    /\ invoked = <<>>
    /\ fpc = "loop"
    /\ ftype = <<>> /\ fchildren = <<>> /\ filters = <<>>
    /\ block_end = FALSE /\ queue = <<>> /\ yielded = <<>> /\ ipc = "idle"
    /\ not_found_exceptions = {} /\ apiCall = NoCall /\ apiResult = NoResult
    /\ provider_name = <<>> /\ source_type = "describe"
    /\ registered = {} /\ last = NoLast

\* a manager whose resource type has some not-found codes; the rest is idle
InitApi ==
    /\ not_found_exceptions \in SUBSET Codes
    /\ apiCall = NoCall
    /\ apiResult = NoResult
    /\ ftype = <<>> /\ fchildren = <<>> /\ filters = <<>>
    /\ block_end = FALSE /\ queue = <<>> /\ yielded = <<>> /\ ipc = "idle"
    /\ chain = <<>> /\ event = "None" /\ input = <<>> /\ original = 0
    /\ resources = <<>> /\ idx = 0 /\ invoked = <<>> /\ fpc = "idle"
    /\ provider_name = <<>> /\ source_type = "describe"
    /\ registered = {} /\ last = NoLast

\* a manager under a policy of some provider, with some resource types
\* loaded already; the other operations are idle
InitResolve ==
    /\ provider_name \in Clouds
    /\ source_type \in {"describe", "config"}
    /\ registered \in SUBSET Plugins
    /\ last = NoLast
    /\ ftype = <<>> /\ fchildren = <<>> /\ filters = <<>>
    /\ block_end = FALSE /\ queue = <<>> /\ yielded = <<>> /\ ipc = "idle"
    /\ chain = <<>> /\ event = "None" /\ input = <<>> /\ original = 0
    /\ resources = <<>> /\ idx = 0 /\ invoked = <<>> /\ fpc = "idle"
    /\ not_found_exceptions = {} /\ apiCall = NoCall /\ apiResult = NoResult

SpecIter == InitIter /\ [][IterNext]_vars

SpecFilter == InitFilter /\ [][FilterNext]_vars

SpecApi == InitApi /\ [][ApiNext]_vars

SpecResolve == InitResolve /\ [][ResolveNext]_vars

\* the consumer drains the generator
FairSpecIter == SpecIter /\ WF_vars(IterNext)

----------------------------------------------------------------------------
(* Properties of iter_filters *)

IsPrefix(s, t) == Len(s) <= Len(t) /\ s = SubSeq(t, 1, Len(s))

\* expand(leaf) = [leaf]; expand(combinator) = the combinator, then its
\* children expanded in reverse declared order, then the marker if asked for
RECURSIVE Expand(_, _)
RECURSIVE ExpandAll(_, _)
Expand(n, marker) ==
    IF ftype[n] \in Combinators
    THEN <<n>> \o ExpandAll(Reverse(fchildren[n]), marker)
               \o (IF marker THEN <<None>> ELSE <<>>)
    ELSE <<n>>
ExpandAll(ns, marker) ==
    IF ns = <<>> THEN <<>>
    ELSE Expand(Head(ns), marker) \o ExpandAll(Tail(ns), marker)

\* C1: without block ends, iter_filters yields the expansions of the
\* top-level filters in declared order, each combinator followed by its
\* children in reverse declared order, and never the marker
C1_IterOrder ==
    (ipc # "idle" /\ ~block_end) =>
        /\ \A i \in 1..Len(yielded) : yielded[i] # None
        /\ IsPrefix(yielded, ExpandAll(filters, FALSE))
        /\ ipc = "done" => yielded = ExpandAll(filters, FALSE)

\* [and(f1, f2)] has been iterated without block ends
C1_Witness ==
    /\ ipc = "done" /\ ~block_end
    /\ filters = <<1>> /\ ftype = <<"and", "value", "value">>
    /\ fchildren[1] = <<2, 3>>
    /\ yielded = <<1, 3, 2>>

\* the stack of open combinator blocks after replaying the yields ys from
\* the stack st (innermost block first); <<None>> when ys is not well nested:
\* a marker with no open block, or a filter that is not a child of the
\* innermost open block (not a top-level filter, when no block is open)
RECURSIVE Replay(_, _)
Replay(ys, st) ==
    IF ys = <<>> THEN st
    ELSE LET y == Head(ys)
         IN  IF y = None
             THEN IF st = <<>> THEN <<None>> ELSE Replay(Tail(ys), Tail(st))
             ELSE IF y \notin Range(IF st = <<>> THEN filters ELSE fchildren[Head(st)])
                  THEN <<None>>
                  ELSE Replay(Tail(ys),
                              IF ftype[y] \in Combinators THEN <<y>> \o st ELSE st)

CountOf(ys, S) == Cardinality({i \in 1..Len(ys) : ys[i] \in S})

\* C2: with block ends, every combinator gets exactly one marker, yielded
\* after the combinator and all of its expanded children and before anything
\* queued earlier, so a marker closes the innermost open block
C2_BlockEnds ==
    (ipc # "idle" /\ block_end) =>
        /\ IsPrefix(yielded, ExpandAll(filters, TRUE))
        /\ None \notin Range(Replay(yielded, <<>>))
        /\ ipc = "done" =>
              /\ yielded = ExpandAll(filters, TRUE)
              /\ Replay(yielded, <<>>) = <<>>
              /\ CountOf(yielded, {None})
                   = Cardinality({n \in DOMAIN ftype : ftype[n] \in Combinators})

\* a block nested in the first top-level block has been closed while a
\* later top-level filter was queued
C2_Witness ==
    /\ ipc = "done" /\ block_end
    /\ Len(filters) >= 2
    /\ ftype[filters[1]] \in Combinators
    /\ \E c \in Range(fchildren[filters[1]]) : ftype[c] \in Combinators
    /\ CountOf(yielded, {None}) >= 2

\* no filter node is yielded twice
NoRevisit ==
    \A i, j \in 1..Len(yielded) :
        (i # j /\ yielded[i] = yielded[j]) => yielded[i] = None

\* C10: for either value of block_end the traversal visits no node twice
\* and ends with an empty queue
C10_Terminates ==
    /\ [](ipc # "idle" => NoRevisit)
    /\ <>(ipc = "done" /\ queue = <<>>)

\* a traversal of a tree of the largest size, three levels deep, has ended
C10_Witness ==
    /\ ipc = "done" /\ queue = <<>>
    /\ Len(ftype) = MaxNodes
    /\ \E a, b, c \in DOMAIN ftype : b \in Range(fchildren[a]) /\ c \in Range(fchildren[b])

----------------------------------------------------------------------------
(* Properties of filter_resources *)

\* C3: the filters are invoked in declared order, the first on the input and
\* each later one on the result of the one before, never on an empty list;
\* the call returns only when the chain is used up or the list is empty
C3_ShortCircuit ==
    fpc # "idle" =>
        /\ \A i \in 1..Len(invoked) :
              /\ invoked[i].filter = i
              /\ invoked[i].given # <<>>
              /\ invoked[i].given = IF i = 1 THEN input ELSE invoked[i - 1].result
        /\ input = <<>> => invoked = <<>>
        /\ fpc = "returned" => (Len(invoked) = Len(chain) \/ resources = <<>>)

\* a filter emptied a non-empty list and a later filter was left uninvoked
C3_Witness ==
    /\ fpc = "returned"
    /\ input # <<>> /\ resources = <<>>
    /\ invoked # <<>> /\ Len(invoked) < Len(chain)

\* C4: the working list never holds more than the input list, nor anything
\* that is not in the input list, at any step and on return
C4_Narrowing ==
    fpc # "idle" =>
        /\ Len(resources) <= Len(input)
        /\ Range(resources) \subseteq Range(input)

\* two filters ran and some but not all of the input was returned
C4_Witness ==
    /\ fpc = "returned"
    /\ Len(invoked) >= 2
    /\ resources # <<>> /\ Len(resources) < Len(input)

\* C9: with an empty chain the input list is returned as it was
C9_EmptyChainIdentity ==
    (fpc = "returned" /\ chain = <<>>) => resources = input

\* a list of several resources, not in ascending order, went through an
\* empty chain with a debug event
C9_Witness ==
    /\ fpc = "returned" /\ chain = <<>>
    /\ event = "debug"
    /\ Len(input) >= 2 /\ input[1] > input[2]
    /\ invoked = <<>>

----------------------------------------------------------------------------
(* Properties of call_api *)

\* C5: a ClientError raised by func is swallowed, None being returned, if
\* and only if ignore_not_found is set and its code is among not_found_codes
\* (the resource type's codes when the argument is not given); otherwise the
\* same error is raised
C5_NotFoundSuppression ==
    (apiResult.kind # "none" /\ apiCall.func.class = "ClientError") =>
        LET codes == IF apiCall.not_found_codes.given
                     THEN apiCall.not_found_codes.codes
                     ELSE not_found_exceptions
            suppress == apiCall.ignore_not_found /\ apiCall.func.code \in codes
        IN  /\ suppress => (apiResult.kind = "return" /\ apiResult.value = "None")
            /\ ~suppress => /\ apiResult.kind = "raise"
                             /\ apiResult.class = "ClientError"
                             /\ apiResult.code = apiCall.func.code

\* an error with one of the resource type's own codes was swallowed, the
\* codes argument not being given
C5_Witness ==
    /\ apiCall.func.class = "ClientError"
    /\ ~apiCall.not_found_codes.given
    /\ apiCall.ignore_not_found
    /\ apiCall.func.code \in not_found_exceptions
    /\ apiResult.kind = "return"

----------------------------------------------------------------------------
(* Properties of get_resource_manager *)

DotFree(name) == \A i \in 1..Len(name) : name[i] # "."

\* the provider a type name selects and the resource it names: the name
\* itself under the policy's provider when it has no dot, else the parts
\* before and after its first dot
Names(resource_type, pname, rname) ==
    IF DotFree(resource_type)
    THEN pname = provider_name /\ rname = resource_type
    ELSE DotFree(pname) /\ resource_type = pname \o Dot \o rname

\* C6 as stated: the error of an unregistered type carries the type name
\* exactly as it was requested, qualified or not
C6_CarriesRequestedName ==
    (last.called /\ last.kind = "raise") => last.arg = last.resource_type

\* C6: a type whose resource the selected provider has not registered gets
\* a ValueError carrying the resource name that was looked up (the requested
\* name when it is bare, the part after the first dot when it is
\* qualified), and no handler; a registered one gets a handler
C6_UnknownResourceType ==
    last.called =>
        \E pname \in Clouds, rname \in SeqsUpTo(Alphabet, Len(last.resource_type)) :
            /\ Names(last.resource_type, pname, rname)
            /\ <<pname, rname>> \notin registered =>
                  /\ last.kind = "raise" /\ last.exc = "ValueError"
                  /\ last.arg = rname
                  /\ last.klass = <<>>
            /\ <<pname, rname>> \in registered =>
                  (last.kind = "handler" /\ last.klass = <<pname, rname>>)

\* a qualified name of an unregistered resource has been refused
C6_Witness ==
    /\ last.called /\ last.kind = "raise"
    /\ last.resource_type = <<"q", ".", "p">>
    /\ last.arg = <<"p">>

SameOutcome(a, b) ==
    /\ a.kind = b.kind /\ a.klass = b.klass /\ a.ctx = b.ctx
    /\ a.hdata = b.hdata /\ a.exc = b.exc /\ a.arg = b.arg
    /\ a.loaded = b.loaded

\* C7: a bare name r and the name P.r, P the policy's provider, resolve
\* alike: after a call with either, a call with the other and the same
\* definition loads the same qualified type and gives the same class,
\* context and definition, or the same error
C7_BareIsQualified ==
    last.called =>
        /\ DotFree(last.resource_type) =>
              SameOutcome(last,
                  get_resource_manager(provider_name \o Dot \o last.resource_type,
                                       last.data).outcome)
        /\ \A r \in TypeNames :
              (DotFree(r) /\ last.resource_type = provider_name \o Dot \o r) =>
                  SameOutcome(last, get_resource_manager(r, last.data).outcome)

\* a bare name has resolved to a handler of the second provider
C7_Witness ==
    /\ last.called /\ last.kind = "handler"
    /\ provider_name = <<"q">>
    /\ last.resource_type = <<"e">>
    /\ last.klass = <<(<<"q">>), (<<"e">>)>>
    /\ last.loaded = {<<"q", ".", "e">>}

\* C8 as stated: the synthetic definition is used exactly when no
\* definition was supplied, the caller reads from config and the target
\* model has a config_type; otherwise the supplied definition is used
C8_SuppliedDefinitionKept ==
    (last.called /\ last.kind = "handler") =>
        LET carry == /\ ~last.data.given
                     /\ source_type = "config"
                     /\ HasConfigType(last.klass)
        IN  /\ carry => last.hdata = {<<"source", "config">>}
            /\ ~carry => last.hdata = last.data.map
            /\ last.ctx = Ctx

\* C8: the synthetic definition {source: config} is used exactly when the
\* definition is absent or empty, the caller reads from config and the
\* target model has a config_type; otherwise the supplied definition is
\* used, an empty one when none was supplied; the context is the caller's
C8_ConfigCarriedForward ==
    (last.called /\ last.kind = "handler") =>
        LET carry == /\ (~last.data.given \/ last.data.map = {})
                     /\ source_type = "config"
                     /\ ConfigType(last.klass) = "AWS::P::E"
        IN  /\ carry => last.hdata = {<<"source", "config">>}
            /\ ~carry => last.hdata = last.data.map
            /\ last.ctx = Ctx

\* an empty definition was supplied by a caller reading from config, for a
\* target with a config_type
C8_Witness ==
    /\ last.called /\ last.kind = "handler"
    /\ last.data.given /\ last.data.map = {}
    /\ source_type = "config"
    /\ last.klass = <<(<<"p">>), (<<"e">>)>>
    /\ last.hdata = {<<"source", "config">>}

====
